---- MODULE Spec2Model ----
(***************************************************************************)
(* Plant Disease Diagnosis System (src/streamlit_app.py).                  *)
(*                                                                         *)
(* The model covers the decision logic of the application: the helper      *)
(* functions infer_pathogen_type and calculate_health_score, and the       *)
(* Diagnose handler that normalises the classifier confidence, derives     *)
(* the severity tier and renders the recovery-timeline section.            *)
(*                                                                         *)
(* Numbers.  Python floats are modelled by exact fixed-point arithmetic:   *)
(* a confidence is an integer count of 1/ConfDen, a health score an        *)
(* integer count of 1/ScoreDen, with ScoreDen = 2 * ConfDen so that        *)
(* base * (1 - confidence * 0.5) and confidence * 120 are exact.           *)
(* Labels are strings; lower() and the `in` substring test are computed    *)
(* character by character.                                                 *)
(***************************************************************************)
EXTENDS Integers, Sequences, FiniteSets, TLC

VARIABLES uploaded_file, returned, label, raw_confidence, confidence,
          pathogen, health_score, severity, recovery_section, crop,
          yield_section

vars == <<uploaded_file, returned, label, raw_confidence, confidence,
          pathogen, health_score, severity, recovery_section, crop,
          yield_section>>

(***************************************************************************)
(* Bounds and units                                                        *)
(***************************************************************************)
\* confidences in [0,1] are enumerated in steps of 1/ConfSteps
ConfSteps == 12

\* one unit of confidence is 1/ConfDen; dividing a percentage k/ConfSteps
\* (k > ConfSteps) by 100 gives k/ConfDen exactly
ConfDen == 100 * ConfSteps

\* one unit of health score is 1/ScoreDen
ScoreDen == 2 * ConfDen

Min(a, b) == IF a <= b THEN a ELSE b

Max(a, b) == IF a >= b THEN a ELSE b

(***************************************************************************)
(* Strings                                                                 *)
(***************************************************************************)
\* str.lower() on one character: A-Z are mapped, everything else is kept
UpperToLower ==
  [A |-> "a", B |-> "b", C |-> "c", D |-> "d", E |-> "e", F |-> "f",
   G |-> "g", H |-> "h", I |-> "i", J |-> "j", K |-> "k", L |-> "l",
   M |-> "m", N |-> "n", O |-> "o", P |-> "p", Q |-> "q", R |-> "r",
   S |-> "s", T |-> "t", U |-> "u", V |-> "v", W |-> "w", X |-> "x",
   Y |-> "y", Z |-> "z"]

LowerChar(ch) == IF ch \in DOMAIN UpperToLower THEN UpperToLower[ch] ELSE ch

RECURSIVE Lower(_)
\* str.lower()
Lower(s) ==
  IF Len(s) = 0 THEN ""
  ELSE LowerChar(SubSeq(s, 1, 1)) \o Lower(SubSeq(s, 2, Len(s)))

\* Python's `kw in s` for a non-empty keyword kw
Contains(s, kw) ==
  \E i \in 1..(Len(s) - Len(kw) + 1) : SubSeq(s, i, i + Len(kw) - 1) = kw

(***************************************************************************)
(* Labels                                                                  *)
(***************************************************************************)
\* the 38 class names of the classifier: the keys of DISEASE_TO_UNIPROT
Vocabulary ==
  {
      "Squash___Powdery_mildew",
      "Orange___Haunglongbing_(Citrus_greening)",
      "Apple___Apple_scab",
      "Apple___Black_rot",
      "Apple___Cedar_apple_rust",
      "Cherry_(including_sour)___Powdery_mildew",
      "Corn_(maize)___Cercospora_leaf_spot Gray_leaf_spot",
      "Corn_(maize)___Common_rust_",
      "Corn_(maize)___Northern_Leaf_Blight",
      "Grape___Black_rot",
      "Grape___Esca_(Black_Measles)",
      "Grape___Leaf_blight_(Isariopsis_Leaf_Spot)",
      "Peach___Bacterial_spot",
      "Pepper,_bell___Bacterial_spot",
      "Potato___Early_blight",
      "Potato___Late_blight",
      "Strawberry___Leaf_scorch",
      "Tomato___Bacterial_spot",
      "Tomato___Early_blight",
      "Tomato___Late_blight",
      "Tomato___Leaf_Mold",
      "Tomato___Septoria_leaf_spot",
      "Tomato___Spider_mites Two-spotted_spider_mite",
      "Tomato___Target_Spot",
      "Tomato___Tomato_Yellow_Leaf_Curl_Virus",
      "Tomato___Tomato_mosaic_virus",
      "Apple___healthy",
      "Blueberry___healthy",
      "Cherry_(including_sour)___healthy",
      "Corn_(maize)___healthy",
      "Grape___healthy",
      "Peach___healthy",
      "Pepper,_bell___healthy",
      "Potato___healthy",
      "Raspberry___healthy",
      "Soybean___healthy",
      "Strawberry___healthy",
      "Tomato___healthy"
  }

\* labels outside the vocabulary: the helper functions take any string
OtherLabels ==
  { "", "X___healthy", "Apple___HEALTHY", "Tomato___HeAlThY_virus",
    "Tomato___healthy_Virus", "Potato___Healthy_mosaic", "healthy_bacterial",
    "Healthy_spider_mite", "Grape___healthy_mildew", "Corn___Mosaic",
    "Cucumber___MOSAIC_bacterial", "Bean___Virus_mite", "Rice___Bacterial_mite",
    "Rose___Spider", "Rose___mite", "Wheat___Virus_mildew",
    "Wheat___Late_blight_Early_blight", "Pear___Early_Blight_bacterial",
    "Plum___Bacterial_mold", "Plum___Mold_rust", "Wheat___RUST_scab",
    "Pear___Scab_mildew", "Wheat___Leaf_rust_virus", "Melon___Downy_Mildew",
    "Mango___Anthracnose", "health", "viru" }

Labels == Vocabulary \cup OtherLabels

(***************************************************************************)
(* Confidence values                                                       *)
(***************************************************************************)
\* classifier outputs that are already fractions: 0, 1/ConfSteps, ..., 1
FractionConfs == { 100 * k : k \in 0..ConfSteps }

\* classifier outputs above 1 (read as percentages by the handler), among
\* them a value just above 1 and one above 100
Percents == {2, 5, 8, 10, 25, 50, 75, 90, 100, 150}

PercentConfs ==
  { 100 * k : k \in {ConfSteps + 1} \cup { ConfSteps * p : p \in Percents } }

RawConfs == FractionConfs \cup PercentConfs

\* arguments of a direct call of calculate_health_score: -1, ..., 3 in
\* steps of 1/ConfSteps, so also values outside [0,1], and the hundredths
\* p/100 (0.9 among them)
CallConfs ==
  { 100 * k : k \in (0 - ConfSteps)..(3 * ConfSteps) }
    \cup { ConfSteps * p : p \in Percents }

InUnitRange(c) == 0 <= c /\ c <= ConfDen

(***************************************************************************)
(* Static tables                                                           *)
(***************************************************************************)
\* (the en dashes of the source's step texts are written as hyphens)
RECOVERY_TIMELINE ==
  [Low    |-> << "Immediate: Monitor plant regularly",
                 "2-4 weeks: Observe symptom changes",
                 "1 season: Preventive care" >>,
   Medium |-> << "Immediate: Apply recommended treatment",
                 "2-4 weeks: Remove infected leaves",
                 "1 season: Improve soil and crop rotation" >>,
   High   |-> << "Immediate: Begin treatment within 24-48 hours",
                 "2-4 weeks: Remove severely infected plants",
                 "1 season: Strict prevention and sanitation" >>]

\* dict.get(key) with None modelled as the empty sequence (both are falsy)
Get(table, key) == IF key \in DOMAIN table THEN table[key] ELSE << >>

NoRecoveryLine == "No recovery actions required (plant is healthy)."

\* (the en dashes and multiplication signs of the source's tips are written
\* as '-' and 'x')
YIELD_TIPS ==
  [
   Tomato |-> <<
       "Use certified disease-free seedlings",
       "Maintain spacing of 60 x 45 cm for airflow",
       "Apply balanced NPK (120:60:60 kg/ha)",
       "Calcium sprays to prevent blossom end rot",
       "Drip irrigation with mulching",
       "Regular pruning and staking",
       "Expected yield: 60-80 tons/ha" >>,
   Potato |-> <<
       "Use certified seed tubers",
       "Avoid water stagnation",
       "Earth-up twice (20 and 40 days)",
       "Apply Zn and B micronutrients",
       "Practice crop rotation",
       "Expected yield: 30-40 tons/ha" >>,
   Apple |-> <<
       "Annual pruning for canopy management",
       "Fruit thinning to improve size",
       "Balanced NPK + calcium sprays",
       "Use disease-resistant rootstocks",
       "Adequate winter chilling management",
       "Expected yield: 20-25 tons/ha" >>,
   Grape |-> <<
       "Canopy management for sunlight penetration",
       "Drip irrigation with fertigation",
       "Apply Zn and Fe micronutrients",
       "Timely pruning and shoot thinning",
       "Avoid excess nitrogen",
       "Expected yield: 25-30 tons/ha" >>,
   Corn |-> <<
       "Use high-yielding hybrids",
       "Split nitrogen application",
       "Maintain proper plant spacing",
       "Weed control during early growth",
       "Seed treatment before sowing",
       "Expected yield: 8-10 tons/ha" >>,
   Pepper |-> <<
       "Use staking for better plant support",
       "Apply potassium-rich fertilizers",
       "Regular harvesting to promote fruiting",
       "Drip irrigation with mulch",
       "Foliar feeding during flowering",
       "Expected yield: 25-35 tons/ha" >>,
   Peach |-> <<
       "Summer pruning for light penetration",
       "Fruit thinning for uniform size",
       "Calcium sprays for fruit firmness",
       "Windbreak protection",
       "Balanced irrigation scheduling",
       "Expected yield: 15-20 tons/ha" >>,
   Cherry |-> <<
       "Bird netting during fruit set",
       "Balanced fertilization",
       "Proper irrigation during flowering",
       "Timely harvesting",
       "Avoid water stress",
       "Expected yield: 10-15 tons/ha" >>,
   Strawberry |-> <<
       "Raised bed cultivation",
       "Plastic mulch to reduce weed pressure",
       "Ensure bee pollination",
       "Regular runner removal",
       "Successive planting strategy",
       "Expected yield: 40-60 tons/ha" >>,
   Blueberry |-> <<
       "Maintain acidic soil (pH 4.5-5.5)",
       "Organic mulching with pine bark",
       "Drip irrigation",
       "Prune old canes annually",
       "Avoid excess nitrogen",
       "Expected yield: 8-12 tons/ha" >>,
   Soybean |-> <<
       "Seed inoculation with Rhizobium",
       "Balanced fertilization",
       "Maintain proper plant population",
       "Timely weed control",
       "Crop rotation with cereals",
       "Expected yield: 3-4 tons/ha" >>,
   Raspberry |-> <<
       "Prune old canes after harvest",
       "Maintain good drainage",
       "Mulching for moisture conservation",
       "Support trellis system",
       "Balanced nutrient management",
       "Expected yield: 10-15 tons/ha" >>,
   Squash |-> <<
       "Adequate pollination (bee-friendly practices)",
       "Maintain vine spacing",
       "Apply potassium during fruiting",
       "Drip irrigation",
       "Remove old leaves regularly",
       "Expected yield: 20-30 tons/ha" >>,
   Orange |-> <<
       "Maintain orchard sanitation",
       "Balanced NPK with micronutrients",
       "Avoid water stress during flowering",
       "Proper canopy management",
       "Use certified planting material",
       "Expected yield: 25-35 tons/ha" >>
  ]

\* the default of YIELD_TIPS.get(crop, [...])
DefaultYieldTips == << "Follow best local practices for this crop" >>

(***************************************************************************)
(* Helper functions                                                        *)
(***************************************************************************)
infer_pathogen_type_virus_first(lbl) ==
  LET l == Lower(lbl) IN
  IF Contains(l, "virus") \/ Contains(l, "mosaic") THEN "Virus"
  ELSE IF Contains(l, "healthy") THEN "Healthy"
  ELSE IF Contains(l, "bacterial") THEN "Bacterium"
  ELSE IF Contains(l, "mite") \/ Contains(l, "spider") THEN "Arthropod"
  ELSE "Fungus"

infer_pathogen_type(lbl) ==
  LET l == Lower(lbl) IN
  IF Contains(l, "healthy") THEN "Healthy"
  ELSE IF Contains(l, "virus") \/ Contains(l, "mosaic") THEN "Virus"
  ELSE IF Contains(l, "bacterial") THEN "Bacterium"
  ELSE IF Contains(l, "mite") \/ Contains(l, "spider") THEN "Arthropod"
  ELSE "Fungus"

\* the if/elif chain of calculate_health_score that picks base_score
base_score_mildew_first(disease_name_lower) ==
  IF Contains(disease_name_lower, "mildew") THEN 65
  ELSE IF Contains(disease_name_lower, "virus") THEN 30
  ELSE IF Contains(disease_name_lower, "late_blight") THEN 35
  ELSE IF Contains(disease_name_lower, "early_blight") THEN 45
  ELSE IF Contains(disease_name_lower, "bacterial") THEN 40
  ELSE IF Contains(disease_name_lower, "mold") THEN 55
  ELSE IF Contains(disease_name_lower, "rust") THEN 50
  ELSE IF Contains(disease_name_lower, "scab") THEN 60
  ELSE 60

base_score(disease_name_lower) ==
  IF Contains(disease_name_lower, "virus") THEN 30
  ELSE IF Contains(disease_name_lower, "late_blight") THEN 35
  ELSE IF Contains(disease_name_lower, "early_blight") THEN 45
  ELSE IF Contains(disease_name_lower, "bacterial") THEN 40
  ELSE IF Contains(disease_name_lower, "mold") THEN 55
  ELSE IF Contains(disease_name_lower, "rust") THEN 50
  ELSE IF Contains(disease_name_lower, "scab") THEN 60
  ELSE IF Contains(disease_name_lower, "mildew") THEN 65
  ELSE 60

healthy_score_uncapped(c) == 2 * c * 120

healthy_score_floored(c) == Max(10 * ScoreDen, Min(100 * ScoreDen, 2 * c * 120))

healthy_score_gain100(c) == Min(100 * ScoreDen, 2 * c * 100)

\* min(100, confidence * 120), in units of 1/ScoreDen
healthy_score(c) == Min(100 * ScoreDen, 2 * c * 120)

disease_score_full_decay(base, c) == Max(10 * ScoreDen, base * (ScoreDen - 2 * c))

disease_score_unfloored(base, c) == base * (ScoreDen - c)

disease_score_rising(base, c) == Max(10 * ScoreDen, base * (ScoreDen + c))

\* max(10, base * (1 - confidence * 0.5)), in units of 1/ScoreDen
disease_score(base, c) == Max(10 * ScoreDen, base * (ScoreDen - c))

calculate_health_score(disease_name, c) ==
  LET disease_name_lower == Lower(disease_name) IN
  IF Contains(disease_name_lower, "healthy")
  THEN healthy_score(c)
  ELSE disease_score(base_score(disease_name_lower), c)

(***************************************************************************)
(* Diagnose handler                                                        *)
(***************************************************************************)
normalize_confidence_strict(raw) == IF raw < ConfDen THEN raw ELSE raw \div 100

\* confidence = confidence if confidence <= 1 else confidence / 100
normalize_confidence(raw) == IF raw <= ConfDen THEN raw ELSE raw \div 100

\* every confidence a call of calculate_health_score receives in the model
Confidences == CallConfs \cup { normalize_confidence(raw) : raw \in RawConfs }

\* the two helper functions tabulated over the model's inputs, so that the
\* string scans are evaluated once per label and not once per transition
PathogenTable == [lbl \in Labels |-> infer_pathogen_type(lbl)]

ScoreTable ==
  [lbl \in Labels |-> [c \in Confidences |-> calculate_health_score(lbl, c)]]

\* "High" if health_score <= 10 else "Medium" if health_score < 50 else "GOOD"
severity_of(score) ==
  IF score <= 10 * ScoreDen THEN "High"
  ELSE IF score < 50 * ScoreDen THEN "Medium"
  ELSE "GOOD"

\* str.split(sep)[0]: the text before the leftmost occurrence of sep, the
\* whole string when sep does not occur
SplitFirst(s, sep) ==
  LET at == { i \in 1..(Len(s) - Len(sep) + 1) :
                SubSeq(s, i, i + Len(sep) - 1) = sep }
  IN IF at = {} THEN s
     ELSE SubSeq(s, 1, (CHOOSE i \in at : \A j \in at : i <= j) - 1)

\* crop = label.split("___")[0]
crop_of(lbl) == SplitFirst(lbl, "___")

\* crop_of tabulated over the model's labels
CropTable == [lbl \in Labels |-> crop_of(lbl)]

\* section 6 of the report: YIELD_TIPS.get(crop, [default])
yield_lines(c) == IF c \in DOMAIN YIELD_TIPS THEN YIELD_TIPS[c] ELSE DefaultYieldTips

\* section 5 of the report: one bullet per step, or the fallback line
recovery_lines(sev) ==
  LET timeline_steps == Get(RECOVERY_TIMELINE, sev) IN
  IF timeline_steps # << >> THEN timeline_steps ELSE << NoRecoveryLine >>

NoReport ==
  /\ returned' = {}
  /\ label' = ""
  /\ raw_confidence' = 0
  /\ confidence' = 0
  /\ pathogen' = ""
  /\ health_score' = 0
  /\ severity' = ""
  /\ recovery_section' = << >>
  /\ crop' = ""
  /\ yield_section' = << >>

Init ==
  /\ uploaded_file = FALSE
  /\ returned = {}
  /\ label = ""
  /\ raw_confidence = 0
  /\ confidence = 0
  /\ pathogen = ""
  /\ health_score = 0
  /\ severity = ""
  /\ recovery_section = << >>
  /\ crop = ""
  /\ yield_section = << >>

\* the user picks a file in st.file_uploader: the script reruns without a report
Upload ==
  /\ uploaded_file' = TRUE
  /\ NoReport

\* the user removes the file: the script reruns into the else branch
ClearUpload ==
  /\ uploaded_file
  /\ uploaded_file' = FALSE
  /\ NoReport

\* the Diagnose button: the classifier answers (lbl, raw), lbl one of its
\* class names (label = model.names[cls_id])
Diagnose(lbl, raw) ==
  /\ uploaded_file
  /\ LET conf  == normalize_confidence(raw)
         score == ScoreTable[lbl][conf]
         sev   == severity_of(score)
     IN /\ label' = lbl
        /\ raw_confidence' = raw
        /\ pathogen' = PathogenTable[lbl]
        /\ confidence' = conf
        /\ health_score' = score
        /\ severity' = sev
        /\ recovery_section' = recovery_lines(sev)
        /\ crop' = CropTable[lbl]
        /\ yield_section' = yield_lines(CropTable[lbl])
  /\ returned' = {"Diagnose"}
  /\ UNCHANGED uploaded_file

Next ==
  \/ Upload
  \/ ClearUpload
  \/ \E lbl \in Vocabulary, raw \in RawConfs : Diagnose(lbl, raw)

Spec == Init /\ [][Next]_vars

(***************************************************************************)
(* Direct calls of the two helper functions on arbitrary arguments         *)
(***************************************************************************)
InitCall ==
  /\ uploaded_file = FALSE
  /\ returned = {}
  /\ label \in Labels
  /\ confidence \in CallConfs
  /\ raw_confidence = confidence
  /\ pathogen = ""
  /\ health_score = 0
  /\ severity = ""
  /\ recovery_section = << >>
  /\ crop = ""
  /\ yield_section = << >>

CallInfer ==
  /\ "infer_pathogen_type" \notin returned
  /\ pathogen' = PathogenTable[label]
  /\ returned' = returned \cup {"infer_pathogen_type"}
  /\ UNCHANGED <<uploaded_file, label, raw_confidence, confidence,
                 health_score, severity, recovery_section, crop,
                 yield_section>>

CallScore ==
  /\ "calculate_health_score" \notin returned
  /\ health_score' = ScoreTable[label][confidence]
  /\ returned' = returned \cup {"calculate_health_score"}
  /\ UNCHANGED <<uploaded_file, label, raw_confidence, confidence,
                 pathogen, severity, recovery_section, crop,
                 yield_section>>

NextCall ==
  \/ CallInfer
  \/ CallScore

SpecCall == InitCall /\ [][NextCall]_vars

(***************************************************************************)
(* Properties                                                              *)
(***************************************************************************)
Inferred == "infer_pathogen_type" \in returned

Scored == "calculate_health_score" \in returned

Reported == "Diagnose" \in returned

\* case-insensitive substring test on the current label
LabelHas(kw) == Contains(Lower(label), kw)

Categories == {"Healthy", "Virus", "Bacterium", "Arthropod", "Fungus"}

\* C1: infer_pathogen_type returns exactly one of the five categories, by
\* ordered case-insensitive substring tests where the first match wins:
\* healthy -> Healthy; else virus or mosaic -> Virus; else bacterial ->
\* Bacterium; else mite or spider -> Arthropod; else Fungus.
C1_OrderedKeywordClass ==
  Inferred =>
    LET healthy   == LabelHas("healthy")
        virus     == LabelHas("virus") \/ LabelHas("mosaic")
        bacterial == LabelHas("bacterial")
        arthropod == LabelHas("mite") \/ LabelHas("spider")
    IN /\ pathogen \in Categories
       /\ healthy => pathogen = "Healthy"
       /\ ~healthy /\ virus => pathogen = "Virus"
       /\ ~healthy /\ ~virus /\ bacterial => pathogen = "Bacterium"
       /\ ~healthy /\ ~virus /\ ~bacterial /\ arthropod => pathogen = "Arthropod"
       /\ ~healthy /\ ~virus /\ ~bacterial /\ ~arthropod => pathogen = "Fungus"

\* a label spelling healthy in mixed case together with a virus keyword
C1_Witness ==
  /\ Inferred
  /\ ~Contains(label, "healthy")
  /\ LabelHas("healthy")
  /\ LabelHas("virus")
  /\ pathogen = "Healthy"

\* C2 as stated: for every label and every confidence in [0,1] the health
\* score lies in [10,100].
C2_ScoreIn10To100 ==
  Scored /\ InUnitRange(confidence) =>
    10 * ScoreDen <= health_score /\ health_score <= 100 * ScoreDen

\* C2 amended: for every label and every confidence in [0,1] the health
\* score lies in [0,100], and in [10,100] when the label has no 'healthy'.
C2_ScoreIn0To100 ==
  Scored /\ InUnitRange(confidence) =>
    /\ 0 <= health_score /\ health_score <= 100 * ScoreDen
    /\ ~LabelHas("healthy") => 10 * ScoreDen <= health_score

\* a healthy label at a positive confidence in [0,1] scored below 10
C2_Witness ==
  /\ Scored
  /\ InUnitRange(confidence)
  /\ LabelHas("healthy")
  /\ confidence > 0
  /\ health_score < 10 * ScoreDen

\* C3: for a label containing 'healthy' the score is min(100, confidence *
\* 120) with no floor: confidence 0 gives 0, confidence 0.9 and 1 give 100.
C3_HealthyScore ==
  Scored /\ LabelHas("healthy") =>
    /\ IF 120 * confidence >= 100 * ConfDen
       THEN health_score = 100 * ScoreDen
       ELSE health_score * ConfDen = 120 * confidence * ScoreDen
    /\ confidence = 0 => health_score = 0
    /\ 10 * confidence = 9 * ConfDen => health_score = 100 * ScoreDen
    /\ confidence = ConfDen => health_score = 100 * ScoreDen

\* a healthy label at confidence 0.9
C3_Witness ==
  /\ Scored
  /\ LabelHas("healthy")
  /\ 10 * confidence = 9 * ConfDen
  /\ health_score = 100 * ScoreDen

\* the base-score table of the claim: rows in order, first match wins
BaseRows ==
  << <<"virus", 30>>, <<"late_blight", 35>>, <<"early_blight", 45>>,
     <<"bacterial", 40>>, <<"mold", 55>>, <<"rust", 50>>, <<"scab", 60>>,
     <<"mildew", 65>> >>

FirstRowBase ==
  LET hits == { i \in DOMAIN BaseRows : LabelHas(BaseRows[i][1]) } IN
  IF hits = {} THEN 60
  ELSE BaseRows[CHOOSE i \in hits : \A j \in hits : i <= j][2]

\* C4: for a label without 'healthy' the score is max(10, base * (1 - 0.5 *
\* c)) with base from the first matching row of the table, 60 on no match.
C4_DiseaseScore ==
  Scored /\ ~LabelHas("healthy") =>
    /\ health_score = Max(10 * ScoreDen, FirstRowBase * (ScoreDen - confidence))
    /\ LabelHas("virus") /\ LabelHas("mildew") /\ confidence = 0
         => health_score = 30 * ScoreDen

\* a label with both 'virus' and 'mildew', where the rows disagree
C4_Witness ==
  /\ Scored
  /\ ~LabelHas("healthy")
  /\ LabelHas("virus")
  /\ LabelHas("mildew")
  /\ confidence = ConfDen
  /\ health_score = 15 * ScoreDen

\* C5: for a label without 'healthy' and any confidence, inside or outside
\* [0,1], the score is at least 10.
C5_DiseaseFloor ==
  Scored /\ ~LabelHas("healthy") => health_score >= 10 * ScoreDen

\* a confidence above 1 at which the floor decides the result
C5_Witness ==
  /\ Scored
  /\ ~LabelHas("healthy")
  /\ confidence > ConfDen
  /\ FirstRowBase * (ScoreDen - confidence) < 10 * ScoreDen
  /\ health_score = 10 * ScoreDen

\* C6: for a fixed label the score is non-increasing in confidence when the
\* label has no 'healthy' and non-decreasing when it has.
C6_Monotone ==
  Scored =>
    \A c2 \in CallConfs :
      confidence <= c2 =>
        IF LabelHas("healthy")
        THEN health_score <= ScoreTable[label][c2]
        ELSE health_score >= ScoreTable[label][c2]

\* a diseased label whose score strictly falls at some larger confidence
C6_Witness ==
  /\ Scored
  /\ ~LabelHas("healthy")
  /\ \E c2 \in CallConfs : confidence < c2 /\ health_score > ScoreTable[label][c2]

\* C7: the severity derived from the score is one of High, Medium, Good:
\* High when score <= 10, Medium when 10 < score < 50, Good when score >= 50.
C7_SeverityTiers ==
  Reported =>
    /\ severity \in {"High", "Medium", "Good"}
    /\ severity = "High" <=> health_score <= 10 * ScoreDen
    /\ severity = "Medium" <=>
         (10 * ScoreDen < health_score /\ health_score < 50 * ScoreDen)
    /\ severity = "Good" <=> health_score >= 50 * ScoreDen

\* C8: a raw confidence above 1 is divided by 100, one of at most 1 is
\* passed unchanged, so a raw confidence in [0,100] is scored in [0,1].
C8_Normalization ==
  Reported =>
    /\ raw_confidence > ConfDen => 100 * confidence = raw_confidence
    /\ raw_confidence <= ConfDen => confidence = raw_confidence
    /\ 0 <= raw_confidence /\ raw_confidence <= 100 * ConfDen
         => InUnitRange(confidence)
    /\ health_score = ScoreTable[label][confidence]

\* a raw percentage was divided by 100
C8_Witness ==
  /\ Reported
  /\ raw_confidence > ConfDen
  /\ raw_confidence <= 100 * ConfDen
  /\ confidence < raw_confidence
  /\ InUnitRange(confidence)

\* C9: for confidence in [0,1] the score is exactly 100 if and only if the
\* label contains 'healthy' and confidence * 120 >= 100.
C9_HundredOnlyHealthy ==
  Scored /\ InUnitRange(confidence) =>
    (health_score = 100 * ScoreDen
       <=> (LabelHas("healthy") /\ 120 * confidence >= 100 * ConfDen))

\* a healthy label capped at 100 below confidence 1
C9_Witness ==
  /\ Scored
  /\ LabelHas("healthy")
  /\ confidence < ConfDen
  /\ 0 <= confidence
  /\ health_score = 100 * ScoreDen

\* C10: the recovery section shows the fallback line if and only if the
\* pathogen category is Healthy; a diseased label gets the RECOVERY_TIMELINE
\* steps of its severity tier.
C10_RecoveryFallbackIffHealthy ==
  Reported =>
    /\ recovery_section = << NoRecoveryLine >> <=> pathogen = "Healthy"
    /\ pathogen # "Healthy" =>
         /\ severity \in DOMAIN RECOVERY_TIMELINE
         /\ recovery_section = RECOVERY_TIMELINE[severity]

\* C11: for every label of the classifier vocabulary the crop before '___'
\* is a key of YIELD_TIPS, so the report lists that crop's tips and never the
\* generic default.
C11_VocabularyCropHasTips ==
  Reported /\ label \in Vocabulary =>
    /\ crop \in DOMAIN YIELD_TIPS
    /\ yield_section = YIELD_TIPS[crop]
    /\ yield_section # DefaultYieldTips

\* C12: for a label without 'healthy' and a confidence in [0,1] the score is
\* at least 15, the floor of 10 does not change it (the base at confidence 0,
\* half the base at confidence 1) and the severity is never High; severity
\* High occurs only for a label with 'healthy' and confidence * 120 <= 10.
C12_DiseaseNeverHigh ==
  Reported /\ InUnitRange(confidence) =>
    /\ ~LabelHas("healthy") =>
         /\ health_score >= 15 * ScoreDen
         /\ health_score = FirstRowBase * (ScoreDen - confidence)
         /\ confidence = 0 => health_score = FirstRowBase * ScoreDen
         /\ confidence = ConfDen => 2 * health_score = FirstRowBase * ScoreDen
         /\ severity # "High"
    /\ severity = "High" =>
         LabelHas("healthy") /\ 120 * confidence <= 10 * ConfDen

\* a virus label at confidence 1: the smallest disease score, 15, is Medium
C12_Witness ==
  /\ Reported
  /\ ~LabelHas("healthy")
  /\ confidence = ConfDen
  /\ health_score = 15 * ScoreDen
  /\ severity = "Medium"

\* severity High is reached by a healthy label at a positive confidence
C12_HighReached ==
  ~(Reported /\ severity = "High" /\ LabelHas("healthy") /\ confidence > 0)

====
